---- MODULE Spec2Model ----
(***************************************************************************)
(* Model of the chat session kept by the App component of src/src/App.jsx. *)
(*                                                                         *)
(* Strings are sequences of one-character strings.  A message is a         *)
(* JavaScript object: the model keeps a heap of objects and the arrays     *)
(* `messages` and `conversationHistory` hold references into it,           *)
(* because the code stores the same userMessage object in both arrays and  *)
(* mutates the last element of `messages` in place while streaming.        *)
(*                                                                         *)
(* Every run of handleSend is a sequence of steps separated by its awaits: *)
(* the synchronous prefix up to `await generateContentStream`, the         *)
(* continuation that opens the assistant message, one loop iteration per   *)
(* chunk, the commit after the loop, or the catch block.  State updates    *)
(* issued in one synchronous step are applied together (React batches      *)
(* them), and a handler that starts sees the state of the latest render.   *)
(* A reference names the run that created the object and the object's      *)
(* place in that run: its userMessage, its aiMessage, the entry it commits *)
(* to the history, or the message of its catch block.                      *)
(***************************************************************************)
EXTENDS Integers, Sequences, FiniteSets, TLC

\* ---------------------------------------------------------------- bounds
MaxTurns == 2          \* runs of handleSend that get past the blank guard
MaxChunks == 1         \* chunks the connector delivers in one session
MaxInputLen == 1       \* characters the textarea holds

\* ------------------------------------------------------------- constants
InnerWidthLimit == 768
\* 'Sorry, there was an error processing your request.', shortened
ErrorText == <<"S", "o", "r", "r", "y">>
InputTexts == { <<"x">>, <<" ">> }     \* values typed into the textarea
InnerWidths == { 768, 1024 }           \* values of window.innerWidth
Whitespace == { " ", "\n" }

VARIABLES
    heap,                  \* the message objects: reference -> [role, content]
    messages,              \* useState([])  : references, the transcript
    input,                 \* useState('')
    isThinking,            \* useState(false)
    conversationHistory,   \* useState([])  : references, the context history
    turns                  \* the runs of handleSend: their locals and position

vars == <<heap, messages, input, isThinking, conversationHistory, turns>>

\* ----------------------------------------------------------- pure helpers
RECURSIVE TrimStart(_)
TrimStart(s) ==
    IF s = <<>> THEN <<>>
    ELSE IF Head(s) \in Whitespace THEN TrimStart(Tail(s)) ELSE s

RECURSIVE TrimEnd(_)
TrimEnd(s) ==
    IF s = <<>> THEN <<>>
    ELSE IF s[Len(s)] \in Whitespace THEN TrimEnd(SubSeq(s, 1, Len(s) - 1)) ELSE s

\* String.prototype.trim
Trim(s) == TrimEnd(TrimStart(s))

\* a reference to an object created by run t of handleSend
Ref(t, place) == <<t, place>>

\* the heap after a new object is created
New(h, ref, obj) == [r \in DOMAIN h \cup {ref} |-> IF r = ref THEN obj ELSE h[r]]

\* chunk.text() of the k-th chunk of the stream of run t.  The code never
\* looks into the text; every chunk gets a text of its own, so that the
\* origin and the order of every piece of streamed text stay visible.
ChunkText(t, k) == <<ToString(t), ToString(k)>>

\* the values (role, content) the references of an array point to
Deref(h, refs) == [i \in 1..Len(refs) |-> h[refs[i]]]

\* conversationHistory.map(...) followed by push: the prompt, a value copy
ContextMessages(h, hist, text) ==
    Append([i \in 1..Len(hist) |->
               [role |-> IF h[hist[i]].role = "user" THEN "user" ELSE "model",
                text |-> h[hist[i]].content]],
           [role |-> "user", text |-> text])

InFlight(t) == turns[t].pc \in {"await", "stream"}
Ended(t) == turns[t].pc \in {"done", "failed"}
AnyInFlight == \E t \in DOMAIN turns : InFlight(t)

\* the chunks delivered so far to the first n runs
RECURSIVE ChunksDelivered(_)
ChunksDelivered(n) ==
    IF n = 0 THEN 0 ELSE Len(turns[n].chunks) + ChunksDelivered(n - 1)

\* ------------------------------------------------------------------ Init
Init ==
    /\ heap = [r \in {} |-> [role |-> "user", content |-> <<>>]]
    /\ messages = <<>>
    /\ input = <<>>
    /\ isThinking = FALSE
    /\ conversationHistory = <<>>
    /\ turns = <<>>

\* --------------------------------------------------------------- actions
\* <textarea onChange>: setInput(e.target.value)
OnChange(v) ==
    /\ Len(v) <= MaxInputLen
    /\ input' = v
    /\ UNCHANGED <<heap, messages, isThinking, conversationHistory, turns>>

\* handleSend without its `if (!trimmedInput) return`
handleSendNoBlankGuard ==
    LET trimmedInput == Trim(input)
        userMessage == Ref(Len(turns) + 1, "userMessage")
    IN  /\ Len(turns) < MaxTurns
        /\ heap' = New(heap, userMessage, [role |-> "user", content |-> trimmedInput])
        /\ messages' = Append(messages, userMessage)
        /\ input' = <<>>
        /\ isThinking' = TRUE
        /\ turns' = Append(turns,
              [pc |-> "await",
               trimmedInput |-> trimmedInput,
               conversationHistory |-> conversationHistory,
               contextMessages |->
                   ContextMessages(heap, conversationHistory, trimmedInput),
               accumulatedResponse |-> <<>>,
               opened |-> FALSE,
               chunks |-> <<>>,
               busyAtSubmit |-> (isThinking \/ AnyInFlight),
               lenAtSubmit |-> Len(messages),
               historyAtSubmit |-> Deref(heap, conversationHistory),
               doneAtSubmit |-> {t \in DOMAIN turns : turns[t].pc = "done"}])
        /\ UNCHANGED conversationHistory

\* handleSend, from its first line to the await of generateContentStream
handleSend ==
    LET trimmedInput == Trim(input)
        userMessage == Ref(Len(turns) + 1, "userMessage")
    IN  IF trimmedInput = <<>>
        THEN UNCHANGED vars
        ELSE /\ Len(turns) < MaxTurns
             /\ heap' = New(heap, userMessage, [role |-> "user", content |-> trimmedInput])
             /\ messages' = Append(messages, userMessage)
             /\ input' = <<>>
             /\ isThinking' = TRUE
             /\ turns' = Append(turns,
                   [pc |-> "await",
                    trimmedInput |-> trimmedInput,
                    conversationHistory |-> conversationHistory,
                    contextMessages |->
                        ContextMessages(heap, conversationHistory, trimmedInput),
                    accumulatedResponse |-> <<>>,
                    opened |-> FALSE,
                    \* history of the run, read by the properties only
                    chunks |-> <<>>,
                    busyAtSubmit |-> (isThinking \/ AnyInFlight),
                    lenAtSubmit |-> Len(messages),
                    historyAtSubmit |-> Deref(heap, conversationHistory),
                    doneAtSubmit |->
                        {t \in DOMAIN turns : turns[t].pc = "done"}])
             /\ UNCHANGED conversationHistory

\* <button onClick={handleSend} disabled={isThinking || !input.trim()}>
ClickSend ==
    /\ ~(isThinking \/ Trim(input) = <<>>)
    /\ handleSend

\* handleKeyDown for e.key === 'Enter'
handleKeyDown(shiftKey, innerWidth) ==
    IF shiftKey
    THEN /\ Len(input) < MaxInputLen
         /\ input' = Append(input, "\n")
         /\ UNCHANGED <<heap, messages, isThinking, conversationHistory, turns>>
    ELSE IF innerWidth > InnerWidthLimit
         THEN handleSend
         ELSE UNCHANGED vars

\* the continuation without its setMessages(prev => [...prev, aiMessage])
StreamOpenSkipsAppend(t) ==
    /\ turns[t].pc = "await"
    /\ heap' = New(heap, Ref(t, "aiMessage"), [role |-> "assistant", content |-> <<>>])
    /\ turns' = [turns EXCEPT ![t].pc = "stream", ![t].opened = TRUE]
    /\ UNCHANGED <<messages, input, isThinking, conversationHistory>>

\* generateContentStream resolves: the assistant message is appended
StreamOpen(t) ==
    /\ turns[t].pc = "await"
    /\ LET aiMessage == Ref(t, "aiMessage")
       IN  /\ heap' = New(heap, aiMessage, [role |-> "assistant", content |-> <<>>])
           /\ messages' = Append(messages, aiMessage)
           /\ turns' = [turns EXCEPT ![t].pc = "stream", ![t].opened = TRUE]
    /\ UNCHANGED <<input, isThinking, conversationHistory>>

\* the loop iteration as it would act if the prompt's trailing entry were the
\* userMessage object itself (contextMessages.push(userMessage)): the write
\* into the last message then shows in the prompt of the run that owns it
StreamChunkSharedPrompt(t) ==
    /\ turns[t].pc = "stream"
    /\ ChunksDelivered(Len(turns)) < MaxChunks
    /\ LET chunkText == ChunkText(t, Len(turns[t].chunks) + 1)
           accumulatedResponse == turns[t].accumulatedResponse \o chunkText
           last == messages[Len(messages)]
           written == [turns EXCEPT
                  ![t].accumulatedResponse = accumulatedResponse,
                  ![t].chunks = Append(@, chunkText)]
       IN  /\ heap' = [heap EXCEPT ![last].content = accumulatedResponse]
           /\ turns' = IF last[2] = "userMessage"
                        THEN [written EXCEPT
                                 ![last[1]].contextMessages =
                                     [@ EXCEPT ![Len(@)].text = accumulatedResponse]]
                        ELSE written
    /\ UNCHANGED <<messages, input, isThinking, conversationHistory>>

\* one iteration of `for await (const chunk of result.stream)`
StreamChunk(t) ==
    /\ turns[t].pc = "stream"
    /\ ChunksDelivered(Len(turns)) < MaxChunks
    /\ LET chunkText == ChunkText(t, Len(turns[t].chunks) + 1)
           accumulatedResponse == turns[t].accumulatedResponse \o chunkText
           last == messages[Len(messages)]
       IN  /\ heap' = [heap EXCEPT ![last].content = accumulatedResponse]
           /\ turns' = [turns EXCEPT
                  ![t].accumulatedResponse = accumulatedResponse,
                  ![t].chunks = Append(@, chunkText)]
    /\ UNCHANGED <<messages, input, isThinking, conversationHistory>>

\* the stream ends normally: newConversationHistory is set
StreamEnd(t) ==
    /\ turns[t].pc = "stream"
    /\ LET modelEntry == Ref(t, "modelEntry")
       IN  /\ heap' = New(heap, modelEntry, [role |-> "assistant",
                                     content |-> turns[t].accumulatedResponse])
           /\ conversationHistory' =
                  turns[t].conversationHistory \o <<Ref(t, "userMessage"), modelEntry>>
    /\ isThinking' = FALSE
    /\ turns' = [turns EXCEPT ![t].pc = "done"]
    /\ UNCHANGED <<messages, input>>

\* the catch block without its setIsThinking(false)
CatchKeepsThinking(t) ==
    /\ heap' = New(heap, Ref(t, "errorMessage"),
                    [role |-> "assistant", content |-> ErrorText])
    /\ messages' = Append(messages, Ref(t, "errorMessage"))
    /\ turns' = [turns EXCEPT ![t].pc = "failed"]
    /\ UNCHANGED <<input, isThinking, conversationHistory>>

\* the catch block of handleSend
Catch(t) ==
    /\ isThinking' = FALSE
    /\ heap' = New(heap, Ref(t, "errorMessage"),
                    [role |-> "assistant", content |-> ErrorText])
    /\ messages' = Append(messages, Ref(t, "errorMessage"))
    /\ turns' = [turns EXCEPT ![t].pc = "failed"]
    /\ UNCHANGED <<input, conversationHistory>>

\* generateContentStream rejects
GenerateReject(t) ==
    /\ turns[t].pc = "await"
    /\ Catch(t)

\* the stream (or chunk.text()) throws inside the loop
StreamThrow(t) ==
    /\ turns[t].pc = "stream"
    /\ Catch(t)

\* the steps the connector drives for run t
Connector(t) ==
    /\ t \in DOMAIN turns
    /\ \/ StreamOpen(t)
       \/ StreamChunk(t)
       \/ StreamEnd(t)
       \/ GenerateReject(t)
       \/ StreamThrow(t)

Next ==
    \/ \E v \in InputTexts : OnChange(v)
    \/ ClickSend
    \/ \E shiftKey \in BOOLEAN, innerWidth \in InnerWidths :
           handleKeyDown(shiftKey, innerWidth)
    \/ \E t \in DOMAIN turns : StreamOpen(t)
    \/ \E t \in DOMAIN turns : StreamChunk(t)
    \/ \E t \in DOMAIN turns : StreamEnd(t)
    \/ \E t \in DOMAIN turns : GenerateReject(t)
    \/ \E t \in DOMAIN turns : StreamThrow(t)

Spec == Init /\ [][Next]_vars

\* every connector call eventually resolves or rejects, every stream
\* eventually delivers its next chunk, ends or throws
FairSpec == Spec /\ \A t \in 1..MaxTurns : WF_vars(Connector(t))

TypeOK ==
    /\ isThinking \in BOOLEAN
    /\ \A i \in DOMAIN messages : messages[i] \in DOMAIN heap
    /\ \A i \in DOMAIN conversationHistory : conversationHistory[i] \in DOMAIN heap
    /\ \A t \in DOMAIN turns : turns[t].pc \in {"await", "stream", "done", "failed"}
\* ------------------------------------------------- notions of the claims
\* the session is IDLE: nothing awaited, no stream being consumed
Idle == ~isThinking /\ ~AnyInFlight

\* c1 + c2 + ... + cn
RECURSIVE Concat(_)
Concat(cs) == IF cs = <<>> THEN <<>> ELSE Head(cs) \o Concat(Tail(cs))

\* the messages the transcript gained since run t was submitted
GainedSince(t) ==
    Deref(heap, SubSeq(messages, turns[t].lenAtSubmit + 1, Len(messages)))

\* run t is the latest run and was submitted while the session was IDLE
LatestFromIdle(t) == t = Len(turns) /\ ~turns[t].busyAtSubmit

\* the prompt the spec describes after the successful runs `done`, oldest first
RECURSIVE PromptOf(_, _)
PromptOf(done, text) ==
    IF done = {} THEN <<[role |-> "user", text |-> text]>>
    ELSE LET t == CHOOSE u \in done : \A v \in done : u <= v
         IN  <<[role |-> "user", text |-> turns[t].trimmedInput],
               [role |-> "model", text |-> turns[t].accumulatedResponse]>>
             \o PromptOf(done \ {t}, text)

DoneTurns == {t \in DOMAIN turns : turns[t].pc = "done"}

\* ---------------------------------------------------------------- claims
\* C1: the context history holds completed turns only: every assistant
\* entry is the full accumulated text of a run that ended normally, and no
\* entry holds text streamed by a run that is still streaming or that failed.
C1_HistoryOnlyCompletedTurns ==
    \A i \in DOMAIN conversationHistory :
        LET r == conversationHistory[i]
        IN  /\ r[2] = "modelEntry" =>
                   /\ turns[r[1]].pc = "done"
                   /\ heap[r].content = turns[r[1]].accumulatedResponse
            /\ ~\E u \in DOMAIN turns :
                   /\ turns[u].pc \in {"stream", "failed"}
                   /\ turns[u].accumulatedResponse # <<>>
                   /\ heap[r].content = turns[u].accumulatedResponse

\* C2: a run of handleSend (send button or Enter key) while the session is
\* not IDLE changes neither the transcript nor the context history and
\* starts no connector call.
C2_BusySubmitRejected ==
    [][ (~Idle /\ (ClickSend \/ \E w \in InnerWidths : handleKeyDown(FALSE, w)))
            => UNCHANGED <<messages, conversationHistory, turns>> ]_vars

\* C3: at most one assistant message is open (still receiving chunks).
C3_AtMostOneOpenTurn ==
    Cardinality({t \in DOMAIN turns : turns[t].pc = "stream"}) <= 1

\* C4: when a run with user text U ends normally with accumulated text A,
\* the last two entries of the context history are {user, U}, {assistant, A}.
C4_CommitAppendsPair ==
    [][ \A t \in DOMAIN turns :
            (turns[t].pc = "stream" /\ turns'[t].pc = "done") =>
                LET h == Deref(heap', conversationHistory')
                IN  /\ Len(h) >= 2
                    /\ h[Len(h) - 1] =
                           [role |-> "user", content |-> turns[t].trimmedInput]
                    /\ h[Len(h)] =
                           [role |-> "assistant",
                            content |-> turns[t].accumulatedResponse] ]_vars

\* C5: when a run fails, the context history equals its value before the
\* run was submitted.
C5_FailureLeavesHistory ==
    [][ \A t \in DOMAIN turns :
            (InFlight(t) /\ turns'[t].pc = "failed") =>
                Deref(heap', conversationHistory') = turns[t].historyAtSubmit ]_vars

\* C6: once a run submitted while IDLE has ended, the transcript has gained
\* exactly one user message followed by exactly one assistant message.
C6_OneUserOneAssistant ==
    \A t \in DOMAIN turns :
        (LatestFromIdle(t) /\ Ended(t)) =>
            /\ Len(GainedSince(t)) = 2
            /\ GainedSince(t)[1] = [role |-> "user", content |-> turns[t].trimmedInput]
            /\ GainedSince(t)[2].role = "assistant"

\* C7: after a failure that follows some streamed text, the last message of
\* the transcript is an assistant message holding the error text and no
\* message of the run still holds the partial text.
C7_ErrorReplacesPartial ==
    \A t \in DOMAIN turns :
        (/\ LatestFromIdle(t)
         /\ turns[t].pc = "failed"
         /\ turns[t].accumulatedResponse # <<>>) =>
            /\ heap[messages[Len(messages)]] =
                   [role |-> "assistant", content |-> ErrorText]
            /\ \A i \in DOMAIN GainedSince(t) :
                   GainedSince(t)[i].content # turns[t].accumulatedResponse

\* C8: after the k-th chunk of a run its assistant message holds
\* c1 + ... + ck, and after normal completion c1 + ... + cn.
C8_ChunksInOrder ==
    \A t \in DOMAIN turns :
        turns[t].pc \in {"stream", "done"} =>
            heap[Ref(t, "aiMessage")].content = Concat(turns[t].chunks)

\* C9: the prompt of a submit of T after N successful runs has 2N + 1
\* entries: the user text and the full assistant text of every successful
\* run, oldest first, then T.  Stated of the prompt of every run and of
\* the prompt a submit would build in the current state.
C9_PromptRoundTrip ==
    /\ \A t \in DOMAIN turns :
           turns[t].contextMessages =
               PromptOf(turns[t].doneAtSubmit, turns[t].trimmedInput)
    /\ \A v \in InputTexts :
           Trim(v) # <<>> =>
               /\ Len(ContextMessages(heap, conversationHistory, Trim(v)))
                      = 2 * Cardinality(DoneTurns) + 1
               /\ ContextMessages(heap, conversationHistory, Trim(v))
                      = PromptOf(DoneTurns, Trim(v))

\* C10: provided every connector call resolves or fails and every stream
\* ends or throws, a session with a run in flight returns to IDLE.
C10_ReturnsToIdle == AnyInFlight ~> Idle

\* a run failed, and a run submitted afterwards from IDLE ended normally
C10_Witness ==
    /\ Idle
    /\ \E t, u \in DOMAIN turns :
           /\ t < u
           /\ turns[t].pc = "failed"
           /\ ~turns[u].busyAtSubmit
           /\ turns[u].pc = "done"
\* C11: a run of handleSend whose input is empty after trimming changes
\* neither the transcript, the context history nor isThinking, and starts
\* no connector call.
C11_BlankSubmitIsNoOp ==
    [][ (Trim(input) = <<>> /\ (ClickSend \/ \E w \in InnerWidths : handleKeyDown(FALSE, w)))
            => UNCHANGED <<heap, messages, conversationHistory, isThinking, turns>> ]_vars

\* the textarea holds white space only, in a session that has a transcript
\* and room for another run: Enter runs handleSend on a blank input
C11_Witness ==
    /\ input # <<>>
    /\ Trim(input) = <<>>
    /\ messages # <<>>
    /\ Len(turns) < MaxTurns
\* C12: the prompt handed to the connector is a value copy: no step changes
\* the entries of a prompt that was already built, whatever happens to the
\* context history and to the messages of the transcript.
C12_PromptIsValueCopy ==
    [][ \A t \in DOMAIN turns :
            turns'[t].contextMessages = turns[t].contextMessages ]_vars

\* a run in flight whose own user message has been overwritten in the
\* transcript while its prompt still ends with the text it submitted
C12_Witness ==
    \E t \in DOMAIN turns :
        /\ InFlight(t)
        /\ heap[Ref(t, "userMessage")].content # turns[t].trimmedInput
        /\ turns[t].contextMessages[Len(turns[t].contextMessages)] =
               [role |-> "user", text |-> turns[t].trimmedInput]
\* C13: the transcript is append-only, and a step changes a message of the
\* transcript only when it is a chunk of the run that opened that message:
\* the assistant message of a run that is streaming; its role stays.
C13_TranscriptAppendOnly ==
    [][ /\ Len(messages') >= Len(messages)
        /\ SubSeq(messages', 1, Len(messages)) = messages
        /\ \A i \in DOMAIN messages :
               heap'[messages[i]] # heap[messages[i]] =>
                   \E t \in DOMAIN turns :
                       /\ messages[i] = Ref(t, "aiMessage")
                       /\ turns[t].pc = "stream"
                       /\ turns'[t].chunks # turns[t].chunks
                       /\ heap'[messages[i]].role = heap[messages[i]].role ]_vars

\* C14: a run is finalized (its pair committed to the context history) only
\* after it received at least one chunk; a stream that ends with no chunk
\* commits nothing.
C14_FinalizedOnlyAfterChunk ==
    /\ \A t \in DOMAIN turns : turns[t].pc = "done" => turns[t].chunks # <<>>
    /\ \A i \in DOMAIN conversationHistory :
           turns[conversationHistory[i][1]].chunks # <<>>
\* a run that has received no chunk yet
AwaitingFirstChunk(t) ==
    \/ turns[t].pc = "await"
    \/ turns[t].pc = "stream" /\ turns[t].chunks = <<>>

\* C15 as stated: from the accepted submit on, while a run awaits its first
\* chunk, the transcript ends with the run's user message followed by an
\* empty assistant message.
C15_AssistantOpenedAtSubmit ==
    \A t \in DOMAIN turns :
        (LatestFromIdle(t) /\ AwaitingFirstChunk(t)) =>
            /\ Len(messages) >= 2
            /\ messages[Len(messages) - 1] = Ref(t, "userMessage")
            /\ heap[messages[Len(messages)]] = [role |-> "assistant", content |-> <<>>]

\* C15 amended: the accepted submit appends the user message only.  While
\* the connector call has not returned, the transcript holds the run's user
\* message and no assistant message of the run (for the latest run, submitted
\* from IDLE, the user message is the last message); the step in which the
\* call resolves appends the empty assistant message at the end.
C15_AssistantOpenedOnResolve ==
    /\ [](\A t \in DOMAIN turns :
              turns[t].pc = "await" =>
                  /\ \E i \in DOMAIN messages : messages[i] = Ref(t, "userMessage")
                  /\ Ref(t, "aiMessage") \notin DOMAIN heap
                  /\ LatestFromIdle(t) =>
                         /\ messages[Len(messages)] = Ref(t, "userMessage")
                         /\ heap[Ref(t, "userMessage")] =
                                [role |-> "user", content |-> turns[t].trimmedInput])
    /\ [][ \A t \in DOMAIN turns :
                (turns[t].pc = "await" /\ turns'[t].pc = "stream") =>
                    /\ messages' = Append(messages, Ref(t, "aiMessage"))
                    /\ heap'[Ref(t, "aiMessage")] =
                           [role |-> "assistant", content |-> <<>>] ]_vars

\* the connector call of the latest run, submitted from IDLE after an
\* earlier run, has resolved: the transcript ends with the run's user
\* message and its empty assistant message
C15_Witness ==
    \E t \in DOMAIN turns :
        /\ t > 1
        /\ LatestFromIdle(t)
        /\ turns[t].pc = "stream"
        /\ turns[t].chunks = <<>>
        /\ messages[Len(messages) - 1] = Ref(t, "userMessage")
        /\ messages[Len(messages)] = Ref(t, "aiMessage")
\* C16: isThinking is true in exactly the states where a run is in flight.
C16_ThinkingIffInFlight == isThinking <=> AnyInFlight

\* C17: the context history only grows by appending: every new value has
\* the previous value as a prefix.
C17_HistoryGrowsByAppending ==
    [][ /\ Len(conversationHistory') >= Len(conversationHistory)
        /\ SubSeq(conversationHistory', 1, Len(conversationHistory))
               = conversationHistory ]_vars

\* the user message of every successful run with the message that follows
\* it in the transcript, from position i on
RECURSIVE SuccessfulPairs(_)
SuccessfulPairs(i) ==
    IF i >= Len(messages) THEN <<>>
    ELSE IF messages[i][2] = "userMessage" /\ turns[messages[i][1]].pc = "done"
         THEN <<heap[messages[i]], heap[messages[i + 1]]>> \o SuccessfulPairs(i + 1)
         ELSE SuccessfulPairs(i + 1)

\* C18: whenever the session is IDLE, the context history is the projection
\* of the transcript onto its successful turns: the same (user, assistant)
\* pairs in the same order.
C18_HistoryIsTranscriptProjection ==
    Idle => Deref(heap, conversationHistory) = SuccessfulPairs(1)
====
